---- MODULE Spec2Model ----
(***************************************************************************)
(* Model of the shared Fibonacci cursor of fib_chal.                       *)
(*                                                                         *)
(*   src/src/fibonacci.rs  struct Fibonacci { full, count } with new,      *)
(*                         previous, current and Iterator::next            *)
(*   src/src/main.rs       the single shared instance FIB and the three    *)
(*                         request handlers fib_next, fib_previous,        *)
(*                         fib_current                                     *)
(*                                                                         *)
(* Three specifications share the state:                                   *)
(*   Spec      each handler is one step (the Mutex makes it so)            *)
(*   SpecLock  the handlers as lock / read / write / respond steps on      *)
(*             several worker threads                                      *)
(*   SpecBig   the loop of test verify_1000th on integers of any size      *)
(*                                                                         *)
(* Rust vectors are 0-based, TLA+ sequences 1-based: full.get(i) is        *)
(* full[i + 1] below.  Option<BigInt> is a sequence of length 0 or 1.      *)
(***************************************************************************)
EXTENDS Integers, Sequences, FiniteSets, TLC

(***************************************************************************)
(* Bounds of the exploration.                                              *)
(***************************************************************************)
\* largest value of count the handlers are allowed to reach
MaxCount == 12
\* number of most recent calls remembered in trail
TrailLen == 4
\* retreats at the floor that the descent bookkeeping still follows
MaxFloor == 2

(***************************************************************************)
(* Option<BigInt>                                                          *)
(***************************************************************************)
Some(v) == <<v>>

None == <<>>

\* BigInt::to_string: exact base-10 text of the integer
to_string(v) == ToString(v)

\* Vec::last
last(v) == IF Len(v) = 0 THEN None ELSE Some(v[Len(v)])

\* Iterator::sum over a vector or slice of BigInt
RECURSIVE sum(_)
sum(v) == IF Len(v) = 0 THEN 0 ELSE v[1] + sum(Tail(v))

(***************************************************************************)
(* Fibonacci::new                                                          *)
(***************************************************************************)
Fibonacci_new == [full |-> <<0>>, count |-> 0]

(***************************************************************************)
(* Iterator::next for Fibonacci.  A result carries the new fields, the     *)
(* returned Option and the branch of the code that produced it.  The       *)
(* parameter count of the branches is self.count after `self.count += 1`.  *)
(***************************************************************************)
\* variant: the `count == 1` test is missing
next_len1_always1(f, count) ==
    [full |-> Append(f, 1), count |-> count, ret |-> Some(1),
     branch |-> "next_len1"]

\* if self.full.len() == 1
next_len1(f, count) ==
    [full |-> Append(f, 1), count |-> count,
     ret |-> IF count = 1 THEN Some(0) ELSE Some(1), branch |-> "next_len1"]

\* else if self.full.len() == 2
next_len2(f, count) ==
    LET next_val == sum(f) IN
    [full |-> Append(f, next_val), count |-> count,
     ret |-> Some(next_val), branch |-> "next_len2"]

\* else if self.full.len() == 3 && self.count == 3
next_count3(f, count) ==
    [full |-> f, count |-> count, ret |-> Some(1), branch |-> "next_count3"]

\* variant: the new term is pushed onto the whole vector, nothing is dropped
next_general_grow(f, count) ==
    LET length == Len(f) IN
    IF length >= 2 THEN
        LET subslice == SubSeq(f, length - 1, length)
            next_num == sum(subslice)
        IN  [full |-> Append(f, next_num), count |-> count,
             ret |-> Some(next_num), branch |-> "next_general"]
    ELSE
        [full |-> f, count |-> count, ret |-> Some(0),
         branch |-> "next_fallback"]

\* else: sum of the last two entries; self.full.get(length - 2..length) is
\* None when the range does not fit the vector
next_general(f, count) ==
    LET length == Len(f) IN
    IF length >= 2 THEN
        LET subslice == SubSeq(f, length - 1, length)
            next_num == sum(subslice)
        IN  [full |-> Append(subslice, next_num), count |-> count,
             ret |-> Some(next_num), branch |-> "next_general"]
    ELSE
        [full |-> f, count |-> count, ret |-> Some(0),
         branch |-> "next_fallback"]

\* variant: the `count == 3` branch is missing
Fibonacci_next_nocount3(f, c) ==
    LET count == c + 1 IN
    IF Len(f) = 1 THEN next_len1(f, count)
    ELSE IF Len(f) = 2 THEN next_len2(f, count)
    ELSE next_general(f, count)

Fibonacci_next(f, c) ==
    LET count == c + 1 IN
    IF Len(f) = 1 THEN next_len1(f, count)
    ELSE IF Len(f) = 2 THEN next_len2(f, count)
    ELSE IF Len(f) = 3 /\ count = 3 THEN next_count3(f, count)
    ELSE next_general(f, count)

(***************************************************************************)
(* Fibonacci::previous.  The parameter count of the branches is            *)
(* self.count after `self.count -= 1`.                                     *)
(***************************************************************************)
\* variant: both origins of the [0,1,1] shape answer 1
previous_bootstrap_always1(count) ==
    [full |-> <<0, 1>>, count |-> count, ret |-> Some(1),
     branch |-> "previous_bootstrap"]

\* variant: the window is reset to the seed alone
previous_bootstrap_seed(count) ==
    [full |-> <<0>>, count |-> count,
     ret |-> IF count = 1 THEN Some(0) ELSE Some(1),
     branch |-> "previous_bootstrap"]

\* 3 => "0" => : the [0,1,1] shape
previous_bootstrap(count) ==
    [full |-> <<0, 1>>, count |-> count,
     ret |-> IF count = 1 THEN Some(0) ELSE Some(1),
     branch |-> "previous_bootstrap"]

\* variant: the subtraction has its operands swapped
previous_general_negfirst(f, count) ==
    LET target_last == f[2]
        target_middle == f[1]
        target_first == target_middle - target_last
        new_vec == <<target_first, target_middle, target_last>>
    IN  [full |-> new_vec, count |-> count, ret |-> last(new_vec),
         branch |-> "previous_general"]

\* variant: target_last and target_middle read one index too far
previous_general_stale(f, count) ==
    LET target_last == f[3]
        target_middle == f[2]
        target_first == target_last - target_middle
        new_vec == <<target_first, target_middle, target_last>>
    IN  [full |-> new_vec, count |-> count, ret |-> last(new_vec),
         branch |-> "previous_general"]

\* 3 => _ => : rebuild the three terms ending one position earlier
previous_general(f, count) ==
    LET target_last == f[2]
        target_middle == f[1]
        target_first == target_last - target_middle
        new_vec == <<target_first, target_middle, target_last>>
    IN  [full |-> new_vec, count |-> count, ret |-> last(new_vec),
         branch |-> "previous_general"]

\* variant: the vector is cleared instead of popped
previous_len2_clear(f, count) ==
    [full |-> <<>>, count |-> count, ret |-> Some(0), branch |-> "previous_len2"]

\* variant: the last entry is not popped
previous_len2_nopop(f, count) ==
    [full |-> f, count |-> count, ret |-> Some(0), branch |-> "previous_len2"]

\* 2 => : self.full.pop()
previous_len2(f, count) ==
    [full |-> SubSeq(f, 1, Len(f) - 1), count |-> count,
     ret |-> Some(0), branch |-> "previous_len2"]

\* 1 => and _ =>
previous_short(f, count) ==
    IF Len(f) = 1 THEN
        [full |-> f, count |-> count, ret |-> Some(0),
         branch |-> "previous_len1"]
    ELSE
        [full |-> f, count |-> count, ret |-> None,
         branch |-> "previous_fallback"]

\* variant: the `count == 0` test is missing
Fibonacci_previous_nofloor(f, c) ==
    LET count == c - 1 IN
    IF Len(f) = 3 THEN
        IF to_string(f[1]) = "0" THEN previous_bootstrap(count)
        ELSE previous_general(f, count)
    ELSE IF Len(f) = 2 THEN previous_len2(f, count)
    ELSE previous_short(f, count)

Fibonacci_previous(f, c) ==
    IF c = 0 THEN
        [full |-> f, count |-> c, ret |-> Some(0), branch |-> "previous_floor"]
    ELSE
        LET count == c - 1 IN
        IF Len(f) = 3 THEN
            IF to_string(f[1]) = "0" THEN previous_bootstrap(count)
            ELSE previous_general(f, count)
        ELSE IF Len(f) = 2 THEN previous_len2(f, count)
        ELSE previous_short(f, count)

(***************************************************************************)
(* Fibonacci::current                                                      *)
(***************************************************************************)
\* variant: the `len() == 2` test is missing
Fibonacci_current_nolen2(f, c) ==
    IF Len(f) = 3 /\ c = 2 THEN
        [ret |-> Some(1), branch |-> "current_count2"]
    ELSE
        IF last(f) # None
        THEN [ret |-> last(f), branch |-> "current_last"]
        ELSE [ret |-> Some(0), branch |-> "current_fallback"]

Fibonacci_current(f, c) ==
    IF Len(f) = 2 THEN
        [ret |-> Some(0), branch |-> "current_len2"]
    ELSE IF Len(f) = 3 /\ c = 2 THEN
        [ret |-> Some(1), branch |-> "current_count2"]
    ELSE
        IF last(f) # None
        THEN [ret |-> last(f), branch |-> "current_last"]
        ELSE [ret |-> Some(0), branch |-> "current_fallback"]

(***************************************************************************)
(* State.  full and count are the fields of the one shared instance FIB.   *)
(* trail, phase, ups and downs are bookkeeping about the calls made so     *)
(* far; no handler reads them.                                             *)
(*   trail   the last TrailLen calls, oldest first: which handler, the     *)
(*           value of count it found, the Option the method returned, the  *)
(*           branch taken and the response body                            *)
(*   phase   "up" while only fib_next (and fib_current) have been called,  *)
(*           "down" while a run of fib_previous follows such a climb,      *)
(*           "mixed" afterwards                                            *)
(*   ups     number of fib_next calls of the climb                         *)
(*   downs   number of fib_previous calls of the descent                   *)
(* mutex and req are the Mutex around FIB and the requests in flight, one  *)
(* per worker thread; they move only under SpecLock, where a handler is    *)
(* several steps.  Under Spec a handler is one step and they stay put.     *)
(*   mutex   0 when unlocked, else the worker holding the guard            *)
(*   req     per worker: where its handler stands (pc), which handler it   *)
(*           is (kind) and the fields it read from the cursor (seen)       *)
(***************************************************************************)
VARIABLES full, count, trail, phase, ups, downs, mutex, req

vars == <<full, count, trail, phase, ups, downs, mutex, req>>

\* lazy_static FIB: Mutex::new(Fibonacci::new())
FIB == Fibonacci_new

\* worker threads of the HttpServer that may run a handler at the same time
NumWorkers == 2

Workers == 1..NumWorkers

\* Mutex state with no guard alive
Unlocked == 0

\* a worker with no request in hand
Idle == [pc |-> "idle", kind |-> "none", seen |-> <<>>]

Init ==
    /\ full = FIB.full
    /\ count = FIB.count
    /\ trail = <<>>
    /\ phase = "up"
    /\ ups = 0
    /\ downs = 0
    /\ mutex = Unlocked
    /\ req = [w \in Workers |-> Idle]

Remember(rec) ==
    IF Len(trail) < TrailLen THEN Append(trail, rec)
    ELSE Append(Tail(trail), rec)

\* match result { Some(value) => value.to_string(), None => String::from("0") }
body_of(ret) == IF ret # None THEN to_string(ret[1]) ELSE "0"

\* GET /next
fib_next ==
    /\ count < MaxCount
    /\ LET r == Fibonacci_next(full, count) IN
        /\ full' = r.full
        /\ count' = r.count
        /\ trail' = Remember([op |-> "next", at |-> count, ret |-> r.ret,
                              branch |-> r.branch, body |-> body_of(r.ret)])
    /\ phase' = IF phase = "up" THEN "up" ELSE "mixed"
    /\ ups' = IF phase = "up" THEN ups + 1 ELSE ups
    /\ UNCHANGED <<downs, mutex, req>>

\* GET /previous
fib_previous ==
    /\ LET r == Fibonacci_previous(full, count) IN
        /\ full' = r.full
        /\ count' = r.count
        /\ trail' = Remember([op |-> "previous", at |-> count, ret |-> r.ret,
                              branch |-> r.branch, body |-> body_of(r.ret)])
    /\ phase' = IF /\ phase \in {"up", "down"}
                   /\ ups >= 1
                   /\ downs < ups + MaxFloor
                THEN "down" ELSE "mixed"
    /\ downs' = IF phase' = "down" THEN downs + 1 ELSE downs
    /\ UNCHANGED <<ups, mutex, req>>

\* variant: the handler drops the entry that current() ignores
fib_current_pops ==
    /\ LET r == Fibonacci_current(full, count) IN
        trail' = Remember([op |-> "current", at |-> count, ret |-> r.ret,
                           branch |-> r.branch, body |-> body_of(r.ret)])
    /\ full' = IF Len(full) = 2 THEN SubSeq(full, 1, 1) ELSE full
    /\ UNCHANGED <<count, phase, ups, downs, mutex, req>>

\* GET /current
fib_current ==
    /\ LET r == Fibonacci_current(full, count) IN
        trail' = Remember([op |-> "current", at |-> count, ret |-> r.ret,
                           branch |-> r.branch, body |-> body_of(r.ret)])
    /\ UNCHANGED <<full, count, phase, ups, downs, mutex, req>>

Next == fib_next \/ fib_previous \/ fib_current

Spec == Init /\ [][Next]_vars

(***************************************************************************)
(* The handlers step by step, on several worker threads.  A handler locks  *)
(* FIB, calls the method through the guard and builds the response; the    *)
(* guard is dropped when the handler returns.  The method is two steps,    *)
(* reading the fields and writing them back, so that a second thread       *)
(* inside the same section would show.                                     *)
(***************************************************************************)
\* largest value of count a /next request may start from under SpecLock
LockMaxCount == 5

Kinds == {"next", "previous", "current"}

\* fib.next(), fib.previous() or fib.current() on the fields f, c
method(kind, f, c) ==
    IF kind = "next" THEN Fibonacci_next(f, c)
    ELSE IF kind = "previous" THEN Fibonacci_previous(f, c)
    ELSE LET r == Fibonacci_current(f, c) IN
         [full |-> f, count |-> c, ret |-> r.ret, branch |-> r.branch]

\* a request for /next, /previous or /current reaches worker w
request(w, k) ==
    /\ req[w].pc = "idle"
    /\ req' = [req EXCEPT ![w] = [pc |-> "lock", kind |-> k, seen |-> <<>>]]
    /\ UNCHANGED <<full, count, trail, phase, ups, downs, mutex>>

\* variant: the guard is handed out while another one is alive
lock_nowait(w) ==
    /\ req[w].pc = "lock"
    /\ req[w].kind = "next" => count < LockMaxCount
    /\ mutex' = w
    /\ req' = [req EXCEPT ![w].pc = "call"]
    /\ UNCHANGED <<full, count, trail, phase, ups, downs>>

\* FIB.lock().unwrap(): blocks until no guard is alive
lock(w) ==
    /\ req[w].pc = "lock"
    /\ mutex = Unlocked
    /\ req[w].kind = "next" => count < LockMaxCount
    /\ mutex' = w
    /\ req' = [req EXCEPT ![w].pc = "call"]
    /\ UNCHANGED <<full, count, trail, phase, ups, downs>>

\* the method starts: it reads self.full and self.count
enter(w) ==
    /\ req[w].pc = "call"
    /\ req' = [req EXCEPT ![w].pc = "run",
                          ![w].seen = [full |-> full, count |-> count]]
    /\ UNCHANGED <<full, count, trail, phase, ups, downs, mutex>>

\* the method finishes: it writes the fields and returns its value
run(w) ==
    /\ req[w].pc = "run"
    /\ LET r == method(req[w].kind, req[w].seen.full, req[w].seen.count) IN
        /\ full' = r.full
        /\ count' = r.count
        /\ trail' = Remember([op |-> req[w].kind, at |-> req[w].seen.count,
                              ret |-> r.ret, branch |-> r.branch,
                              body |-> body_of(r.ret)])
    /\ req' = [req EXCEPT ![w].pc = "respond"]
    /\ UNCHANGED <<phase, ups, downs, mutex>>

\* HttpResponse::Ok().body(..) is returned and the guard goes out of scope
respond(w) ==
    /\ req[w].pc = "respond"
    /\ mutex' = IF mutex = w THEN Unlocked ELSE mutex
    /\ req' = [req EXCEPT ![w] = Idle]
    /\ UNCHANGED <<full, count, trail, phase, ups, downs>>

\* the climb and descent bookkeeping is not followed here
InitLock ==
    /\ full = FIB.full
    /\ count = FIB.count
    /\ trail = <<>>
    /\ phase = "mixed"
    /\ ups = 0
    /\ downs = 0
    /\ mutex = Unlocked
    /\ req = [w \in Workers |-> Idle]

NextLock ==
    \E w \in Workers :
        \/ \E k \in Kinds : request(w, k)
        \/ lock(w)
        \/ enter(w)
        \/ run(w)
        \/ respond(w)

SpecLock == InitLock /\ [][NextLock]_vars

(***************************************************************************)
(* The cursor on integers of any size.  A BigInt is a sequence of limbs    *)
(* in base 10^9, lowest first, without leading zero limbs (0 is <<0>>),    *)
(* so that no width limits it; full then holds such sequences.  big_next   *)
(* and big_current are Iterator::next and Fibonacci::current on them, and  *)
(* the specification SpecBig is the loop of test verify_1000th.            *)
(***************************************************************************)
\* value of one limb position
LimbBase == 1000000000

\* decimal digits of one limb
LimbDigits == 9

\* BigInt::from for a small non-negative integer
RECURSIVE big_from(_)
big_from(n) ==
    IF n < LimbBase THEN <<n>>
    ELSE <<n % LimbBase>> \o big_from(n \div LimbBase)

big_limb(a, i) == IF i <= Len(a) THEN a[i] ELSE 0

\* schoolbook addition from limb i upwards with the carry of the limbs below
RECURSIVE big_add_from(_, _, _, _)
big_add_from(a, b, i, carry) ==
    IF i > Len(a) /\ i > Len(b) THEN
        IF carry = 0 THEN <<>> ELSE <<carry>>
    ELSE
        LET d == big_limb(a, i) + big_limb(b, i) + carry IN
        <<d % LimbBase>> \o big_add_from(a, b, i + 1, d \div LimbBase)

\* variant: a fixed-width sum that keeps the two lowest limbs
big_add_fixed(a, b) ==
    LET s == big_add_from(a, b, 1, 0) IN
    IF Len(s) <= 2 THEN s ELSE SubSeq(s, 1, 2)

\* BigInt + BigInt
big_add(a, b) ==
    big_add_from(a, b, 1, 0)

\* Iterator::sum over a vector or slice of BigInt, starting from zero
RECURSIVE big_sum(_)
big_sum(v) ==
    IF Len(v) = 0 THEN big_from(0) ELSE big_add(v[1], big_sum(Tail(v)))

\* the decimal digits of n, highest first, without leading zeros
RECURSIVE digits_of(_)
digits_of(n) ==
    IF n < 10 THEN <<n>> ELSE Append(digits_of(n \div 10), n % 10)

\* the decimal digits of n, highest first, padded with zeros to width w
RECURSIVE padded_digits(_, _)
padded_digits(n, w) ==
    IF w = 0 THEN <<>> ELSE Append(padded_digits(n \div 10, w - 1), n % 10)

\* the text of the limbs 1..k of a, highest first, each at full width
RECURSIVE lower_text(_, _)
lower_text(a, k) ==
    IF k = 0 THEN <<>>
    ELSE padded_digits(a[k], LimbDigits) \o lower_text(a, k - 1)

\* BigInt::to_string: the decimal digits, highest first
big_to_string(a) ==
    digits_of(a[Len(a)]) \o lower_text(a, Len(a) - 1)

\* Iterator::next on a window of BigInt; c1 is self.count after the increment
big_next(f, c) ==
    LET c1 == c + 1 IN
    IF Len(f) = 1 THEN
        [full |-> Append(f, big_from(1)), count |-> c1,
         ret |-> IF c1 = 1 THEN Some(big_from(0)) ELSE Some(big_from(1)),
         branch |-> "next_len1"]
    ELSE IF Len(f) = 2 THEN
        LET next_val == big_sum(f) IN
        [full |-> Append(f, next_val), count |-> c1,
         ret |-> Some(next_val), branch |-> "next_len2"]
    ELSE IF Len(f) = 3 /\ c1 = 3 THEN
        [full |-> f, count |-> c1, ret |-> Some(big_from(1)),
         branch |-> "next_count3"]
    ELSE
        LET length == Len(f) IN
        IF length >= 2 THEN
            LET subslice == SubSeq(f, length - 1, length)
                next_num == big_sum(subslice)
            IN  [full |-> Append(subslice, next_num), count |-> c1,
                 ret |-> Some(next_num), branch |-> "next_general"]
        ELSE
            [full |-> f, count |-> c1, ret |-> Some(big_from(0)),
             branch |-> "next_fallback"]

\* Fibonacci::current on a window of BigInt
big_current(f, c) ==
    IF Len(f) = 2 THEN
        [ret |-> Some(big_from(0)), branch |-> "current_len2"]
    ELSE IF Len(f) = 3 /\ c = 2 THEN
        [ret |-> Some(big_from(1)), branch |-> "current_count2"]
    ELSE
        IF last(f) # None
        THEN [ret |-> last(f), branch |-> "current_last"]
        ELSE [ret |-> Some(big_from(0)), branch |-> "current_fallback"]

\* `if count == 1000` of verify_1000th
BigSteps == 1000

\* the text the test expects, digit by digit
Expected1000 ==
    <<
      2, 6, 8, 6, 3, 8, 1, 0, 0, 2, 4, 4, 8, 5, 3, 5, 9, 3, 8, 6, 1, 4, 6, 7, 2, 7, 2, 0, 2, 1,
      4, 2, 9, 2, 3, 9, 6, 7, 6, 1, 6, 6, 0, 9, 3, 1, 8, 9, 8, 6, 9, 5, 2, 3, 4, 0, 1, 2, 3, 1,
      7, 5, 9, 9, 7, 6, 1, 7, 9, 8, 1, 7, 0, 0, 2, 4, 7, 8, 8, 1, 6, 8, 9, 3, 3, 8, 3, 6, 9, 6,
      5, 4, 4, 8, 3, 3, 5, 6, 5, 6, 4, 1, 9, 1, 8, 2, 7, 8, 5, 6, 1, 6, 1, 4, 4, 3, 3, 5, 6, 3,
      1, 2, 9, 7, 6, 6, 7, 3, 6, 4, 2, 2, 1, 0, 3, 5, 0, 3, 2, 4, 6, 3, 4, 8, 5, 0, 4, 1, 0, 3,
      7, 7, 6, 8, 0, 3, 6, 7, 3, 3, 4, 1, 5, 1, 1, 7, 2, 8, 9, 9, 1, 6, 9, 7, 2, 3, 1, 9, 7, 0,
      8, 2, 7, 6, 3, 9, 8, 5, 6, 1, 5, 7, 6, 4, 4, 5, 0, 0, 7, 8, 4, 7, 4, 1, 7, 4, 6, 2, 6
    >>

\* let mut fibonacci = Fibonacci::new(); let mut count = 0;
InitBig ==
    /\ full = <<big_from(0)>>
    /\ count = 0
    /\ trail = <<>>
    /\ phase = "up"
    /\ ups = 0
    /\ downs = 0
    /\ mutex = Unlocked
    /\ req = [w \in Workers |-> Idle]

\* one turn of the loop: count += 1; fibonacci.next();  (ups is the test's
\* local count)
loop_next ==
    /\ ups < BigSteps
    /\ LET r == big_next(full, count) IN
        /\ full' = r.full
        /\ count' = r.count
        /\ trail' = Remember([op |-> "next", at |-> count, ret |-> r.ret,
                              branch |-> r.branch,
                              body |-> big_to_string(r.ret[1])])
    /\ ups' = ups + 1
    /\ UNCHANGED <<phase, downs, mutex, req>>

\* the last turn: fibonacci.current().unwrap().clone().to_string(); break
loop_current ==
    /\ ups = BigSteps
    /\ phase = "up"
    /\ LET r == big_current(full, count) IN
        trail' = Remember([op |-> "current", at |-> count, ret |-> r.ret,
                           branch |-> r.branch,
                           body |-> big_to_string(r.ret[1])])
    /\ phase' = "done"
    /\ UNCHANGED <<full, count, ups, downs, mutex, req>>

NextBig == loop_next \/ loop_current

SpecBig == InitBig /\ [][NextBig]_vars

(***************************************************************************)
(* The classical sequence F(0) = 0, F(1) = 1, F(n) = F(n-1) + F(n-2).      *)
(***************************************************************************)
RECURSIVE F(_)
F(n) == IF n <= 0 THEN 0 ELSE IF n = 1 THEN 1 ELSE F(n - 1) + F(n - 2)

Max(a, b) == IF a >= b THEN a ELSE b

\* the most recent call, and the ones before it
Last == trail[Len(trail)]

Back(k) == trail[Len(trail) - k]

TypeOK ==
    /\ count \in 0..MaxCount
    /\ Len(full) \in 0..3
    /\ phase \in {"up", "down", "mixed"}
    /\ Len(trail) <= TrailLen

(***************************************************************************)
(* Properties of the calls.                                                *)
(***************************************************************************)
Called == Len(trail) >= 1

\* the ops of the last calls, oldest first
Ops(k) == [i \in 1..k |-> trail[Len(trail) - k + i].op]

\* C1: from a fresh cursor and with advances only, the k-th advance
\* returns F(k-1): 0, 1, 1, 2, 3, 5, 8, 13, 21, 34, ...
C1_AdvancesYieldSequence ==
    (Called /\ phase = "up" /\ Last.op = "next")
        => Last.ret = Some(F(ups - 1))

C1_Witness ==
    /\ Called /\ phase = "up" /\ Last.op = "next"
    /\ ups = 10 /\ Last.ret = Some(34) /\ Last.branch = "next_general"

\* C2: after any interleaving, an advance called at step s returns F(s) and
\* a retreat called at step s >= 1 returns F(max(s-2, 0)), whatever the path.
C2_ReturnDependsOnStepOnly ==
    Called =>
        /\ Last.op = "next" => Last.ret = Some(F(Last.at))
        /\ (Last.op = "previous" /\ Last.at >= 1)
               => Last.ret = Some(F(Max(Last.at - 2, 0)))

C2_Witness ==
    /\ Len(trail) >= 2 /\ phase = "mixed"
    /\ Ops(2) = <<"next", "previous">>
    /\ Last.at = 2 /\ Last.branch = "previous_bootstrap"
    /\ Last.ret = Some(0)

\* C3: after n >= 1 consecutive advances from a fresh cursor, the j-th
\* successive retreat returns F(max(n-1-j, 0)).
C3_RetreatsWalkBack ==
    (Called /\ phase = "down" /\ Last.op = "previous")
        => Last.ret = Some(F(Max(ups - 1 - downs, 0)))

C3_Witness ==
    /\ Len(trail) >= 4 /\ phase = "down" /\ ups = 11 /\ downs = 4
    /\ Ops(4) = <<"previous", "previous", "previous", "previous">>
    /\ <<Back(3).ret, Back(2).ret, Back(1).ret, Last.ret>>
           = <<Some(34), Some(21), Some(13), Some(8)>>

\* C4: in every reachable state, advance followed by retreat leaves peek
\* returning the value it returned before the advance.
C4_AdvanceRetreatRestoresPeek ==
    (Len(trail) >= 4 /\ Ops(4) = <<"current", "next", "previous", "current">>)
        => Last.ret = Back(3).ret

\* C5: a peek made immediately after an advance returns the value that
\* advance returned.
C5_PeekAfterAdvance ==
    (Len(trail) >= 2 /\ Ops(2) = <<"next", "current">>)
        => Last.ret = Back(1).ret

\* C6: a peek made immediately after a retreat returns the value that
\* retreat returned.
C6_PeekAfterRetreat ==
    (Len(trail) >= 2 /\ Ops(2) = <<"previous", "current">>)
        => Last.ret = Back(1).ret

\* C7: on a fresh cursor peek returns 0, and after k >= 1 consecutive
\* advances from a fresh cursor peek returns what the k-th advance returned:
\* 0, 1, 1, 2, 3, 5, 8, 13, 21, 34 for k = 1..10.
C7_PeekAfterAdvancesOnly ==
    (Called /\ phase = "up" /\ Last.op = "current") =>
        /\ Last.ret = Some(F(Max(ups - 1, 0)))
        /\ (Len(trail) >= 2 /\ Back(1).op = "next") => Last.ret = Back(1).ret

C7_Witness ==
    /\ Len(trail) >= 2 /\ phase = "up" /\ ups = 10
    /\ Ops(2) = <<"next", "current">>
    /\ Last.ret = Some(34) /\ Last.body = "34"

\* C8: whenever step is 0, retreat returns 0 and leaves step and window
\* unchanged, however often it is repeated; step is never negative.
C8_Floor ==
    /\ [][(count = 0 /\ fib_previous)
             => (count' = count /\ full' = full /\ Last'.ret = Some(0))]_vars
    /\ [](count >= 0)

C8_Witness ==
    /\ Len(trail) >= 3 /\ phase = "down" /\ ups = 11 /\ downs = ups + 2
    /\ Ops(3) = <<"previous", "previous", "previous">>
    /\ <<Back(2).at, Back(1).at, Last.at>> = <<1, 0, 0>>
    /\ Back(1).ret = Some(0) /\ Last.ret = Some(0)
    /\ count = 0 /\ full = <<0>>

\* C9: in every reachable state with step > 0, retreat followed by advance
\* leaves peek returning the value it returned before the retreat.
C9_RetreatAdvanceRestoresPeek ==
    (/\ Len(trail) >= 4
     /\ Ops(4) = <<"current", "previous", "next", "current">>
     /\ Back(3).at > 0)
        => Last.ret = Back(3).ret

C9_Witness ==
    /\ Len(trail) >= 4
    /\ Ops(4) = <<"current", "previous", "next", "current">>
    /\ Back(3).at = 2 /\ Back(2).branch = "previous_bootstrap"
    /\ Back(3).ret = Some(1) /\ Last.ret = Some(1)

\* C10: if an advance returns x and is followed by one retreat and one
\* advance, the second advance returns x again.
C10_RepeatValue ==
    (Len(trail) >= 3 /\ Ops(3) = <<"next", "previous", "next">>)
        => Last.ret = Back(2).ret

C10_Witness ==
    /\ Len(trail) >= 3 /\ Ops(3) = <<"next", "previous", "next">>
    /\ Back(2).at = 5 /\ Back(1).branch = "previous_general"
    /\ Back(2).ret = Some(5) /\ Last.ret = Some(5)

\* C11 (as amended): for n >= 1 the n-th advance from the initial state
\* finds step n-1 and returns F(n-1), under F(0)=0, F(1)=1, F(2)=1, F(3)=2.
C11_NthAdvanceReturnsPredecessor ==
    (Called /\ phase = "up" /\ Last.op = "next") =>
        /\ Last.at = ups - 1
        /\ Last.ret = Some(F(Last.at))

C11_Witness ==
    /\ Called /\ phase = "up" /\ Last.op = "next"
    /\ ups = 4 /\ Last.at = 3 /\ Last.ret = Some(2)

\* C11 (as stated): for n >= 1 the value returned by the n-th advance from
\* the initial state is F(n).
C11_AsStated ==
    (Called /\ phase = "up" /\ Last.op = "next" /\ ups >= 1)
        => Last.ret = Some(F(ups))

\* C12 (as amended): after k advances and no retreats peek returns 0 for
\* k = 0 and F(k-1) for k >= 1; at the transitional positions k = 0, 1, 2
\* that is 0, 0, 1.
C12_PeekReturnsPredecessor ==
    (Called /\ phase = "up" /\ Last.op = "current") =>
        /\ Last.at = ups
        /\ Last.ret = Some(IF ups = 0 THEN 0 ELSE F(ups - 1))
        /\ ups = 0 => Last.ret = Some(0)
        /\ ups = 1 => Last.ret = Some(0)
        /\ ups = 2 => Last.ret = Some(1)

C12_Witness ==
    /\ Called /\ phase = "up" /\ Last.op = "current"
    /\ ups = 2 /\ Last.branch = "current_count2" /\ Last.ret = Some(1)

\* C12 (as stated): after k advances and no retreats peek returns F(k) for
\* every k >= 0.
C12_AsStated ==
    (Called /\ phase = "up" /\ Last.op = "current")
        => Last.ret = Some(F(ups))

\* C13: round-trip law, in the form that does not depend on how the terms
\* are indexed: peek is the same for every path that ends at the same step,
\* so two peeks that find the same step return the same value whatever
\* advances and retreats lie between them.
C13_PeekSameAtSameStep ==
    \A i, j \in 1..Len(trail) :
        (/\ trail[i].op = "current"
         /\ trail[j].op = "current"
         /\ trail[i].at = trail[j].at)
            => trail[i].ret = trail[j].ret

\* C14: peek never mutates the cursor: step and window are unchanged by
\* peek, and the call that follows a peek finds the step the peek found.
C14_PeekDoesNotMutate ==
    /\ [][fib_current => (full' = full /\ count' = count)]_vars
    /\ []((Len(trail) >= 2 /\ Back(1).op = "current")
              => Last.at = Back(1).at)

C14_Witness ==
    /\ Len(trail) >= 3 /\ Ops(3) = <<"next", "current", "next">>
    /\ Back(1).branch = "current_len2" /\ Back(1).at = 2
    /\ <<Back(2).ret, Back(1).ret, Last.ret>> = <<Some(1), Some(0), Some(1)>>
    /\ full = <<0, 1, 1>> /\ count = 3

\* the branches that stand in for a missing value
Fallbacks == {"next_fallback", "previous_fallback", "current_fallback"}

\* C16: in every reachable state each of the three operations returns a
\* value through a defined branch: no fallback branch is taken, no None is
\* returned, and every response body is the text of the value returned.
C16_Totality ==
    /\ Fibonacci_next(full, count).branch \notin Fallbacks
    /\ Fibonacci_previous(full, count).branch \notin Fallbacks
    /\ Fibonacci_current(full, count).branch \notin Fallbacks
    /\ Fibonacci_next(full, count).ret # None
    /\ Fibonacci_previous(full, count).ret # None
    /\ Fibonacci_current(full, count).ret # None
    /\ Called => /\ Last.branch \notin Fallbacks
                 /\ Last.ret # None
                 /\ Last.body = to_string(Last.ret[1])

C16_Witness ==
    /\ Len(trail) >= 3 /\ Ops(3) = <<"previous", "previous", "current">>
    /\ Back(2).branch = "previous_len2" /\ Back(1).branch = "previous_len1"
    /\ Last.branch = "current_last" /\ Last.body = "0"

\* C17: in every reachable state the window has 1, 2 or 3 entries.
C17_WindowLength == Len(full) \in {1, 2, 3}

C17_Witness ==
    /\ Called /\ Last.op = "next" /\ Last.branch = "next_general"
    /\ Len(full) = 3 /\ count = MaxCount

\* C18: in every reachable state with step 0 the window is exactly [0].
C18_SeedAtStepZero == count = 0 => full = <<0>>

C18_Witness ==
    /\ Len(trail) >= 2 /\ Ops(2) = <<"next", "previous">>
    /\ phase = "mixed" /\ Last.at = 1 /\ Last.branch = "previous_len2"
    /\ count = 0 /\ full = <<0>>

\* C19: in every reachable state with step s >= 4 the window is
\* [F(s-3), F(s-2), F(s-1)]; all window entries are non-negative; and a
\* length-3 window whose first entry is 0 is [0, 1, 1] with step 2 or 3.
C19_SteadyWindow ==
    /\ count >= 4 => full = <<F(count - 3), F(count - 2), F(count - 1)>>
    /\ \A i \in 1..Len(full) : full[i] >= 0
    /\ (Len(full) = 3 /\ full[1] = 0)
           => (full = <<0, 1, 1>> /\ count \in {2, 3})

C19_Witness ==
    /\ Called /\ Last.op = "previous" /\ Last.branch = "previous_general"
    /\ Last.at = 5 /\ count = 4 /\ full = <<1, 1, 2>>

\* a worker between taking the guard and dropping it
InCritical(w) == req[w].pc \in {"call", "run", "respond"}

\* the step a call leaves behind, given the step it found
StepAfter(rec) ==
    IF rec.op = "next" THEN rec.at + 1
    ELSE IF rec.op = "previous" THEN Max(rec.at - 1, 0)
    ELSE rec.at

\* C20: with concurrent /next, /previous and /current requests at most one
\* handler at a time is operating on the cursor; a handler holds the lock
\* from taking it until it has finished and not afterwards; and the values
\* returned are those of the same operations run one after another, in the
\* order in which they held the lock.
C20_MutualExclusion ==
    /\ [](\A v, w \in Workers : (InCritical(v) /\ InCritical(w)) => v = w)
    /\ [](\A w \in Workers : InCritical(w) <=> mutex = w)
    /\ [][\A w \in Workers :
            run(w) => req[w].seen = [full |-> full, count |-> count]]_vars
    /\ [](\A i \in 1..Len(trail) :
            /\ i > 1 => trail[i].at = StepAfter(trail[i - 1])
            /\ trail[i].op = "next" => trail[i].ret = Some(F(trail[i].at))
            /\ (trail[i].op = "previous" /\ trail[i].at >= 1)
                   => trail[i].ret = Some(F(Max(trail[i].at - 2, 0)))
            /\ trail[i].op = "previous" /\ trail[i].at = 0
                   => trail[i].ret = Some(0))
    /\ [](Called => count = StepAfter(Last))

C20_Witness ==
    /\ NumWorkers >= 2
    /\ req[1].pc = "run" /\ req[1].kind = "next" /\ req[1].seen.count = 4
    /\ req[2].pc = "lock" /\ req[2].kind = "previous"
    /\ mutex = 1
    /\ Len(trail) >= 2 /\ Ops(2) = <<"previous", "current">>

\* a BigInt in normal form: limbs below the base, no leading zero limb
WellFormed(a) ==
    /\ Len(a) >= 1
    /\ \A i \in 1..Len(a) : a[i] \in 0..(LimbBase - 1)
    /\ Len(a) > 1 => a[Len(a)] # 0

\* F(n) and F(n+1), computed in n steps
RECURSIVE FibPair(_)
FibPair(n) ==
    IF n <= 0 THEN <<0, 1>>
    ELSE LET p == FibPair(n - 1) IN <<p[2], p[1] + p[2]>>

\* largest step whose terms still fit a machine integer
SmallSteps == 40

\* C15: after 1000 advances from a fresh cursor peek returns exactly the
\* 209-digit integer of test verify_1000th, and no intermediate term is
\* truncated or wrapped: every window entry is a well-formed integer, the
\* entries never get shorter, and while the terms still fit a machine
\* integer the window is [F(s-3), F(s-2), F(s-1)].
C15_ThousandthTerm ==
    /\ (Called /\ Last.op = "current" /\ Last.at = BigSteps) =>
           /\ Last.body = Expected1000
           /\ Len(Last.body) = 209
           /\ Last.ret = last(full)
    /\ \A i \in 1..Len(full) : WellFormed(full[i])
    /\ \A i \in 1..(Len(full) - 1) : Len(full[i]) <= Len(full[i + 1])
    /\ (count >= 4 /\ count <= SmallSteps) =>
           full = <<big_from(FibPair(count - 3)[1]),
                    big_from(FibPair(count - 2)[1]),
                    big_from(FibPair(count - 1)[1])>>

C15_Witness ==
    /\ Called /\ Last.op = "current" /\ Last.at = BigSteps
    /\ count = 1000 /\ ups = 1000 /\ phase = "done"
    /\ Len(full[3]) = 24 /\ Len(Last.body) = 209
    /\ Last.branch = "current_last"

====
